---------------------------- MODULE Spec2Model ----------------------------
(***************************************************************************)
(* exptools2: the Session coordinator (core/session.py) and the Trial      *)
(* phase machine (core/trial.py), with the virtual response pad of         *)
(* stimuli.py.                                                             *)
(*                                                                         *)
(* Time is counted in ticks of a tenth of a frame interval.  The psychopy  *)
(* window, clocks, keyboard and mouse are the environment: a flip blocks   *)
(* for one frame interval and then runs the callbacks registered with      *)
(* callOnFlip; a Clock reads now minus its reference point.                *)
(*                                                                         *)
(* An uncaught Python exception ends the script: pc = "raised" and exc     *)
(* names the exception.  core.quit() ends it with pc = "exited".           *)
(***************************************************************************)
EXTENDS Integers, Sequences, FiniteSets, TLC

\* ------------------------------------------------------------- bounds
\* Frame intervals that may elapse in a run of the model.
MaxFrames == 3
\* Rows the event log may hold.
MaxRows == 3
\* Trial objects constructed in a run of the model.
MaxTrials == 2
\* Times the script may have the log written in a run of the model.
MaxSaves == 2

\* ---------------------------------------------------------- constants
\* Python's None in a numeric attribute (exp_start, exp_stop, start_trial, rt).
NoneT == -1000
\* Session.nr_frames when the attribute does not exist.
NoAttr == -1
\* Ticks per frame interval (Session.t_per_frame = 1 / actual_framerate).
FrameTicks == 10
\* 1.1 frame intervals in ticks: 1./actual_framerate * 1.1
SecondsCompensation == (11 * FrameTicks) \div 10
\* A missing cell of the log (pandas NaN) in a text column.
NaN == "NaN"
\* Trial.phase_names = None
NoNames == <<>>
\* The names a caller passes as phase_names, one per phase.
PhaseNames == <<"fix", "stim">>
\* settings["numpad"]["digits"]: the response codes of pad regions 1..n.
Digits == <<"7", "8">>
\* Session.mri_trigger = None: no trigger key is configured.
NoKey == "None"
\* The key that get_events treats as the quit key.
QuitKey == "q"
\* The event types save_data treats as responses.
ResponseTypes == {"mouse_click", "key_press", "trigger", "pulse"}

VARIABLES
    pc,       \* where the script is: idle, ready, arm, frames, exited, raised
    exc,      \* the exception that ended the script, or "none"
    now,      \* ticks since the Session was constructed
    session,  \* the Session object's attributes
    trial,    \* the current Trial object's attributes
    loop,     \* Trial.run's locals: the for-loop index and the frame count
    toCall,   \* the window's callbacks pending for the next flip
    files,    \* what save_data has written
    hist      \* history: facts about past steps that the properties refer to

vars == <<pc, exc, now, session, trial, loop, toCall, files, hist>>

\* ------------------------------------------------------------ helpers
Last(s) == s[Len(s)]

\* The state as one record, threaded through the methods below.
World == [s |-> session, t |-> trial, q |-> toCall, now |-> now,
          files |-> files, exc |-> exc, exited |-> FALSE]

Ok(w) == w.exc = "none" /\ ~w.exited

Raise(w, e) == [w EXCEPT !.exc = e]

\* session.clock.getTime()
ClockTime(w) == w.now - w.s.clockRef

\* session.timer.getTime(): negative while the countdown runs
TimerTime(w) == w.now - w.s.timerRef

\* A timer left as it is.
TimerKeep(w) == w

\* session.timer.reset()
TimerReset(w) == [w EXCEPT !.s.timerRef = w.now]

\* A countdown that starts from now when the time it was set for has passed.
TimerCatchUp(w, t) ==
    [w EXCEPT !.s.timerRef = (IF @ < w.now THEN w.now ELSE @) + t]

\* A countdown that starts again from now.
TimerRestart(w, t) == [w EXCEPT !.s.timerRef = w.now + t]

\* session.timer.add(t): the reference point moves t later.
TimerAdd(w, t) == [w EXCEPT !.s.timerRef = @ + t]

\* A row of global_log with every cell missing.
EmptyRow == [trial_nr |-> NoneT, onset |-> NoneT, event_type |-> NaN,
             phase |-> NoneT, response |-> NaN, rt |-> NoneT,
             nr_frames |-> NoneT, params |-> {}]

\* global_log.loc[idx, ...] = ... for idx = global_log.shape[0]: a new row.
AppendRow(w, r) == [w EXCEPT !.s.global_log = Append(@, r)]

IsResponse(r) == r.event_type \in ResponseTypes

\* ------------------------------------------------ the parameter columns
\* Trial.parameters is a dict; an entry is a name with a scalar (list FALSE,
\* val of length 1) or with a list or array (list TRUE).  A cell of the log
\* holds a value as it is (kind "int") or its str() (kind "str").
DecimalDigits == <<"0", "1", "2", "3", "4", "5", "6", "7", "8", "9">>

\* str(i) for an int i >= 0
RECURSIVE IntStr(_)
IntStr(i) ==
    IF i < 10 THEN DecimalDigits[i + 1]
    ELSE IntStr(i \div 10) \o DecimalDigits[(i % 10) + 1]

\* A text filled at its left up to a width.
RECURSIVE PadLeft(_, _, _)
PadLeft(text, width, fill) ==
    IF Len(text) >= width THEN text ELSE PadLeft(fill \o text, width, fill)

\* '_%4i' % i
SpacePadded(i) == "_" \o PadLeft(IntStr(i), 4, " ")

\* '_%04i' % i
ZeroPadded(i) == "_" \o PadLeft(IntStr(i), 4, "0")

Cell(col, kind, x) == [col |-> col, kind |-> kind, text |-> IntStr(x)]

\* The cells log_phase_info writes for the parameters of the trial.
OnsetColumns(params) ==
    UNION {IF p.list
           THEN {Cell(p.name \o SpacePadded(i - 1), "str", p.val[i]) : i \in DOMAIN p.val}
           ELSE {Cell(p.name, "int", p.val[1])} : p \in params}

\* The cells _log_event writes for the parameters of the trial.
EventColumns(params) ==
    UNION {IF p.list
           THEN {Cell(p.name \o ZeroPadded(i - 1), "int", p.val[i]) : i \in DOMAIN p.val}
           ELSE {Cell(p.name, "int", p.val[1])} : p \in params}

\* ------------------------------------------------- Trial.log_phase_info
\* The callback bound by callOnFlip(self.log_phase_info, phase=self.phase);
\* cb holds the Trial object's trial_nr, phase_names and parameters and the
\* phase passed.
\* A callback that reads the trial's phase when the flip runs it.
CurrentPhase(w, cb) == w.t.phase

\* if phase is None: phase = self.phase -- run() always passes the phase.
BoundPhase(w, cb) == cb.phase

LogPhaseInfo(w, cb) ==
    LET onset == ClockTime(w)
        phase == BoundPhase(w, cb)
        w1 == IF phase = 0 /\ cb.trial_nr = w.t.trial_nr
              THEN [w EXCEPT !.t.start_trial = onset]
              ELSE w
        row0 == [EmptyRow EXCEPT !.onset = onset, !.trial_nr = cb.trial_nr]
    IN  IF cb.phase_names = NoNames
        THEN Raise(AppendRow(w1, row0), "TypeError")
        ELSE LET row1 == [row0 EXCEPT !.event_type = cb.phase_names[phase + 1],
                                      !.phase = phase]
             IN  IF w1.s.nr_frames = NoAttr
                 THEN Raise(AppendRow(w1, row1), "AttributeError")
                 ELSE [AppendRow(w1, [row1 EXCEPT !.nr_frames = w1.s.nr_frames,
                                                  !.params = OnsetColumns(cb.parameters)])
                          EXCEPT !.s.nr_frames = 0]

RECURSIVE RunCallbacks(_, _)
RunCallbacks(w, cbs) ==
    IF ~Ok(w) THEN w
    ELSE IF cbs = <<>> THEN [w EXCEPT !.q = <<>>]
    ELSE RunCallbacks(LogPhaseInfo(w, Head(cbs)), Tail(cbs))

\* session.win.flip(): blocks until the next refresh, then runs the pending
\* callbacks in the order they were registered.
Flip(w) == RunCallbacks([w EXCEPT !.now = @ + FrameTicks], w.q)

\* ---------------------------------------------------- Session.save_data
\* nonresp_idx: the rows whose event_type is not a response type.
NonRespIdx(log) == {i \in DOMAIN log : ~IsResponse(log[i])}

\* local_log.loc[nonresp_idx, "onset"]: their onsets, in log order.
RECURSIVE NonRespOnsets(_)
NonRespOnsets(log) ==
    IF log = <<>> THEN <<>>
    ELSE IF IsResponse(Head(log)) THEN NonRespOnsets(Tail(log))
         ELSE <<Head(log).onset>> \o NonRespOnsets(Tail(log))

\* Series.diff().values[1:]
DiffTail(xs) == [i \in 1..(Len(xs) - 1) |-> xs[i + 1] - xs[i]]

\* Durations that run from each onset to the end of the experiment.
DurationsToStop(log, exp_stop) ==
    LET onsets == NonRespOnsets(log)
    IN  [i \in DOMAIN onsets |-> exp_stop - onsets[i]]

\* np.append(onsets.diff().values[1:], dur_last_phase)
Durations(log, exp_stop) ==
    LET onsets == NonRespOnsets(log)
    IN  Append(DiffTail(onsets), exp_stop - Last(onsets))

\* local_log.loc[nonresp_idx, "duration"] = durations: the k-th non-response
\* row takes the k-th duration; a response row keeps a missing duration.
RECURSIVE AssignDurations(_, _)
AssignDurations(rows, durs) ==
    IF rows = <<>> THEN <<>>
    ELSE IF IsResponse(Head(rows))
         THEN <<[duration |-> NoneT]>> \o AssignDurations(Tail(rows), durs)
         ELSE <<[duration |-> Head(durs)]>> \o AssignDurations(Tail(rows), Tail(durs))

LocalLog(log, exp_start, exp_stop) ==
    LET durs == AssignDurations(log, Durations(log, exp_stop))
    IN  [i \in DOMAIN log |->
            [trial_nr |-> log[i].trial_nr, onset |-> log[i].onset,
             event_type |-> log[i].event_type, phase |-> log[i].phase,
             response |-> log[i].response, rt |-> log[i].rt,
             nr_frames |-> log[i].nr_frames, params |-> log[i].params,
             onset_abs |-> log[i].onset + exp_start,
             duration |-> durs[i].duration]]

\* _set_exp_stop(): exp_stop = clock.getTime()
SetExpStop(w) == [w EXCEPT !.s.exp_stop = ClockTime(w)]

\* A save_data that keeps the exp_stop it finds.
KeepStamp(w) == w

\* The first statement of save_data: self._set_exp_stop()
Restamp(w) == SetExpStop(w)

\* The clock counts whole ticks, which round(3) leaves as they are.
SaveData(w) ==
    LET w1 == Restamp(w)
        log == w1.s.global_log
    IN  IF log # <<>> /\ w1.s.exp_start = NoneT THEN Raise(w1, "TypeError")
        ELSE IF NonRespIdx(log) = {} THEN Raise(w1, "IndexError")
        ELSE [w1 EXCEPT !.files = [events |-> LocalLog(log, w1.s.exp_start, w1.s.exp_stop),
                                   exp_stop |-> w1.s.exp_stop,
                                   writes |-> @.writes + 1]]

\* -------------------------------------------------------- Session.close
\* if not self.test: self.save_data()
SaveUnlessTest(w) == IF ~Ok(w) \/ w.s.test THEN w ELSE SaveData(w)

\* self.closed = True
MarkClosed(w) == IF ~Ok(w) THEN w ELSE [w EXCEPT !.s.closed = TRUE]

Close(w) ==
    IF w.s.closed THEN w
    ELSE MarkClosed(SaveUnlessTest(Flip(SetExpStop(w))))

\* --------------------------------------------------------- Session.quit
\* core.quit()
CoreQuit(w) == IF ~Ok(w) THEN w ELSE [w EXCEPT !.exited = TRUE]

Quit(w) ==
    IF ~Ok(w) THEN w
    ELSE CoreQuit(IF ~w.s.closed THEN Close(w) ELSE w)

\* ----------------------------------------------------- Trial._log_event
LogEvent(w, event_type, response, t) ==
    LET row == [EmptyRow EXCEPT !.trial_nr = w.t.trial_nr, !.onset = t,
                                !.event_type = event_type, !.phase = w.t.phase,
                                !.response = response]
    IN  IF w.t.start_trial = NoneT
        THEN Raise(AppendRow(w, row), "TypeError")
        ELSE AppendRow(w, [row EXCEPT !.rt = t - w.t.start_trial,
                                      !.params = EventColumns(w.t.parameters)])

\* ----------------------------------------------------- Trial.get_events
\* key == ev for a str key and a (key, t) tuple ev: never equal in Python.
StrEqualsEvent(key, ev) == FALSE

\* key in self.session.keys_pressed_last_frame, a list of (key, t) tuples
InLastFrame(w, key) ==
    \E i \in DOMAIN w.s.keys_pressed_last_frame :
        StrEqualsEvent(key, w.s.keys_pressed_last_frame[i])

\* self.last_resp = ...; self.last_resp_onset = t, once _log_event returned
SetLastResp(w, response, t) ==
    IF ~Ok(w) THEN w
    ELSE [w EXCEPT !.t.last_resp = response, !.t.last_resp_onset = t]

\* The body of the loop over the batch, for a key other than 'q'.
LogKey(w, e) ==
    IF InLastFrame(w, e.key) THEN w
    ELSE IF e.key = w.s.mri_trigger
         THEN LogEvent(w, "pulse", e.key, e.t)
         ELSE SetLastResp(LogEvent(w, "key_press", e.key, e.t), e.key, e.t)

\* for key, t in events: ...
RECURSIVE HandleKeys(_, _)
HandleKeys(w, events) ==
    IF ~Ok(w) \/ events = <<>> THEN w
    ELSE IF Head(events).key = QuitKey
         THEN Quit(Close(w))
         ELSE HandleKeys(LogKey(w, Head(events)), Tail(events))

\* Python truth of mouse.getPressed()[0] (0 or 1) and of mouse_was_pressed
\* (None before the first poll).
Truthy(x) == x # NoneT /\ x # 0

\* A test of the button level alone.
ButtonDown(w, m) == Truthy(m.pressed)

\* self.session.mouse.getPressed()[0] and not self.session.mouse_was_pressed
FreshPress(w, m) == Truthy(m.pressed) /\ ~Truthy(w.s.mouse_was_pressed)

\* A click stamped with the reading of the countdown timer.
ClickTimeOnTimer(w) == TimerTime(w)

\* t = self.session.clock.getTime(): the time a mouse click is stamped with.
ClickTime(w) == ClockTime(w)

\* The first index of virtual_response_box that the loop does not skip.
FirstScanned == 1

\* seq[k] in Python, k counted from 0, a negative k from the end.
PyIndex(seq, k) == IF k < 0 THEN seq[Len(seq) + k + 1] ELSE seq[k + 1]

\* for i, digit in enumerate(virtual_response_box): the regions from i on,
\* clicked being clicked_digits; region i contains the cursor iff i is in m.over.
RECURSIVE ScanDigits(_, _, _, _)
ScanDigits(w, m, i, clicked) ==
    IF i > Len(Digits) THEN w
    ELSE IF FreshPress(w, m)
         THEN LET clicked1 == IF i \in m.over THEN Append(clicked, i - 1) ELSE clicked
              IN  IF clicked1 # <<>>
                  THEN LET response == PyIndex(Digits, clicked1[1])
                           t == ClickTime(w)
                       IN  SetLastResp(LogEvent(w, "mouse_click", response, t),
                                       response, t)
                  ELSE ScanDigits(w, m, i + 1, clicked1)
         ELSE ScanDigits(w, m, i + 1, clicked)

\* self.session.keys_pressed_last_frame = events
StoreBatch(w, events) ==
    IF ~Ok(w) THEN w ELSE [w EXCEPT !.s.keys_pressed_last_frame = events]

\* self.session.mouse_was_pressed = self.session.mouse.getPressed()[0]
TrackButton(w, m) ==
    IF ~Ok(w) THEN w ELSE [w EXCEPT !.s.mouse_was_pressed = m.pressed]

\* if self.session.virtual_response_box: ...
PollMouse(w, m) ==
    IF ~Ok(w) \/ ~w.s.virtual_response_box THEN w
    ELSE TrackButton(ScanDigits(w, m, FirstScanned, <<>>), m)

GetEvents(w, events, m) == PollMouse(StoreBatch(HandleKeys(w, events), events), m)

\* ------------------------------------------------------------ Trial.run
\* The duration the for loop is at: phase_dur.
PhaseDur == trial.phase_durations[loop.it]

\* A phase loop under seconds timing that does not look at the countdown.
LoopCondNoDeadline(w) ==
    IF w.t.timing = "seconds"
    THEN ~w.t.exit_phase /\ ~w.t.exit_trial
    ELSE loop.fr < PhaseDur /\ ~(w.t.exit_phase \/ w.t.exit_trial)

\* A loop condition that does not look at exit_trial.
LoopCondNoAbort(w) ==
    IF w.t.timing = "seconds"
    THEN TimerTime(w) < 0 /\ ~w.t.exit_phase
    ELSE loop.fr < PhaseDur /\ ~w.t.exit_phase

\* A frame loop that makes one iteration more: range(phase_dur + 1).
LoopCondOneMore(w) ==
    IF w.t.timing = "seconds"
    THEN TimerTime(w) < 0 /\ ~w.t.exit_phase /\ ~w.t.exit_trial
    ELSE loop.fr < PhaseDur + 1 /\ ~(w.t.exit_phase \/ w.t.exit_trial)

\* The condition under which the phase loop runs one more iteration.
LoopCond(w) ==
    IF w.t.timing = "seconds"
    THEN TimerTime(w) < 0 /\ ~w.t.exit_phase /\ ~w.t.exit_trial
    ELSE loop.fr < PhaseDur /\ ~(w.t.exit_phase \/ w.t.exit_trial)

\* self.session.nr_frames += 1
IncFrames(w) ==
    IF ~Ok(w) THEN w
    ELSE IF w.s.nr_frames = NoAttr THEN Raise(w, "AttributeError")
    ELSE [w EXCEPT !.s.nr_frames = @ + 1]

\* self.draw(): the child class's drawing routine.  It may call stop_phase()
\* or stop_trial() (sig), and under draw_each_frame = False it decides itself
\* whether to flip (drawFlips); the time of a frame passes in it otherwise.
Draw(w, sig, drawFlips) ==
    LET w1 == [w EXCEPT !.t.exit_phase = @ \/ sig = "phase",
                        !.t.exit_trial = @ \/ sig = "trial"]
    IN  IF w.t.timing = "seconds" /\ ~w.t.draw_each_frame
        THEN IF drawFlips THEN Flip(w1) ELSE [w1 EXCEPT !.now = @ + FrameTicks]
        ELSE w1

\* An iteration of the phase loop up to its call of get_events.
LoopFlip(w) ==
    IF ~Ok(w) THEN w
    ELSE IF w.t.timing = "seconds"
    THEN IF w.t.draw_each_frame THEN IncFrames(Flip(w)) ELSE w
    ELSE Flip(w)

PreEvents(w, sig, drawFlips) == LoopFlip(Draw(w, sig, drawFlips))

\* The end of an iteration: under frames timing the frame counter goes up
\* after get_events.
PostEvents(w) == IF w.t.timing = "seconds" THEN w ELSE IncFrames(w)

\* An iteration that collects the events before it flips.
FrameBodyPollFirst(w, sig, drawFlips, events, m) ==
    PostEvents(LoopFlip(GetEvents(Draw(w, sig, drawFlips), events, m)))

\* One iteration of the phase loop.
FrameBody(w, sig, drawFlips, events, m) ==
    PostEvents(GetEvents(PreEvents(w, sig, drawFlips), events, m))

\* A compensation that shortens every phase of the trial, not only phase 0.
CompensateAll(durs, timing) ==
    [i \in DOMAIN durs |->
        durs[i] - (IF timing = "seconds" THEN SecondsCompensation ELSE 1)]

\* The first-trial compensation of run(), on the list phase_durations.
Compensate(durs, timing) ==
    IF timing = "seconds"
    THEN [durs EXCEPT ![1] = @ - SecondsCompensation]
    ELSE [durs EXCEPT ![1] = @ - 1]

\* ------------------------------------------------------- the environment
\* The signals a drawing routine may raise: none, stop_phase(), stop_trial().
Signals == {"none", "phase", "trial"}

\* A batch of event.getKeys(timeStamped=clock) is a list of (key, t) tuples.
\* A key is stamped with the time it was pressed: in a frame that starts at
\* clock time t0 and is polled at t1, an early key carries t0, a late one t1.
Key(k, early) == [key |-> k, early |-> early]

Stamp(shape, t0, t1) ==
    [i \in DOMAIN shape |->
        [key |-> shape[i].key, t |-> IF shape[i].early THEN t0 ELSE t1]]

NoKeys == {<<>>}
EarlyKeys == {<<Key("a", TRUE)>>}
LateKeys == {<<Key("a", FALSE)>>}
QuitKeys == {<<Key(QuitKey, FALSE)>>}
QuitBatches == {<<Key("a", FALSE), Key(QuitKey, FALSE)>>,
                <<Key(QuitKey, FALSE), Key("a", FALSE)>>}

\* The pad regions: 0 is the frame of the pad, i >= 1 the digit Digits[i].
Regions == 0..Len(Digits)

\* What the mouse reads in a frame: the left button (0 or 1), and the regions
\* that contain the cursor.
NoMouse == [pressed |-> 0, over |-> {}]

Presses == [pressed : {1}, over : {{0}, {0, 2}, {0, 1, 2}}]

\* The phase durations a caller passes, per timing mode.
DurChoices(timing) == IF timing = "seconds" THEN {0, 2 * FrameTicks} ELSE {1, 2}

DurLists(timing) ==
    UNION {[1..n -> DurChoices(timing)] : n \in 1..Len(PhaseNames)}

\* parameters = None: the trial has an empty dict.
NoParameters == {}

\* The arguments of Trial.__init__: timing, draw_each_frame, whether
\* phase_names is given, and phase_durations.  run() reads draw_each_frame
\* under seconds timing only.  non_int holds the positions of the durations
\* that are not of type int: none in the lists made here.  parameters is
\* the dict of the trial: empty in the lists made here.
Templates(timings, defs, nameds) ==
    UNION {[timing : {tm},
            draw_each_frame : IF tm = "seconds" THEN defs ELSE {TRUE},
            named : nameds,
            durs : DurLists(tm),
            non_int : {{}},
            parameters : {NoParameters}] : tm \in timings}

\* The same argument lists with one or more durations given as a float.
Mistyped(templates) ==
    UNION {{[tpl EXCEPT !.non_int = f] : f \in SUBSET DOMAIN tpl.durs \ {{}}} :
              tpl \in templates}

\* TIMING_OPTS of _check_params
TimingOpts == {"seconds", "frames"}

\* A check of the timing mode alone.
CheckTimingOnly(tpl) ==
    IF tpl.timing \notin TimingOpts THEN "ValueError" ELSE "none"

\* Trial._check_params: the exception it raises, or "none".
CheckParams(tpl) ==
    IF tpl.timing \notin TimingOpts THEN "ValueError"
    ELSE IF tpl.timing = "frames" /\ tpl.non_int # {} THEN "ValueError"
    ELSE "none"

InBounds(w) ==
    /\ w.now <= MaxFrames * FrameTicks
    /\ Len(w.s.global_log) <= MaxRows

\* ---------------------------------------------------------------- state
NoTrial == [trial_nr |-> 0, phase_durations |-> <<>>, phase_names |-> NoNames,
            non_int |-> {}, parameters |-> {},
            timing |-> "seconds", draw_each_frame |-> TRUE,
            start_trial |-> NoneT, exit_phase |-> FALSE, exit_trial |-> FALSE,
            phase |-> 0, last_resp |-> NaN, last_resp_onset |-> NoneT]

NoPress == [frames |-> 0, clicks |-> 0, inside |-> FALSE]

\* No call of load_next_trial yet.  Of the last call: the trial number given
\* to create_trial, the ticks create_trial took, the phase_dur passed, and
\* whether logging.warn was called.
NoLoad == [calls |-> 0, nr |-> NoneT, cost |-> 0, phase_dur |-> 0, warned |-> FALSE]

\* Session.__init__.  nr_frames is not assigned there (the assignment is
\* commented out); test is an attribute a script sets after construction, as
\* a child class may set nr_frames and mri_trigger (triggers); response_device
\* decides whether the virtual response box exists.
InitOf(tests, nrs, boxes, triggers) ==
    /\ pc = "idle"
    /\ exc = "none"
    /\ now = 0
    /\ session \in [clockRef : {0}, timerRef : {0},
                    exp_start : {NoneT}, exp_stop : {NoneT},
                    global_log : {<<>>},
                    first_trial : {TRUE}, closed : {FALSE},
                    test : tests,
                    nr_frames : nrs,
                    mri_trigger : triggers,
                    virtual_response_box : boxes,
                    mouse_was_pressed : {NoneT},
                    keys_pressed_last_frame : {<<>>}]
    /\ trial = NoTrial
    /\ loop = [it |-> 0, fr |-> 0]
    /\ toCall = <<>>
    /\ files = [events |-> <<>>, exp_stop |-> NoneT, writes |-> 0]
    /\ hist = [requested |-> <<>>, trials |-> 0, rowsAtReset |-> 0,
               press |-> NoPress, timerAtArm |-> 0, afterStop |-> FALSE,
               load |-> NoLoad, deadline |-> 0]

\* Session.__init__ as it is: mri_trigger = None.
InitWith(tests, nrs, boxes) == InitOf(tests, nrs, boxes, {NoKey})

Commit(w, nextpc) ==
    /\ InBounds(w)
    /\ session' = w.s
    /\ trial' = w.t
    /\ toCall' = w.q
    /\ now' = w.now
    /\ files' = w.files
    /\ exc' = w.exc
    /\ pc' = IF w.exc # "none" THEN "raised"
             ELSE IF w.exited THEN "exited" ELSE nextpc

Running == pc = "idle" /\ ~session.closed

\* A step of the script between two runs: run() has returned and the script
\* holds no Trial object any more.
Script(w) == Commit([w EXCEPT !.t = NoTrial], "idle")

\* -------------------------------------------------------------- actions
\* Session.start_experiment
StartExperiment ==
    /\ Running
    /\ Script([World EXCEPT !.s.exp_start = ClockTime(World),
                            !.s.clockRef = now,
                            !.s.timerRef = now])
    /\ hist' = [hist EXCEPT !.rowsAtReset = Len(session.global_log),
                            !.requested = <<>>,
                            !.deadline = now]
    /\ UNCHANGED loop

\* Session.start_block
StartBlock ==
    /\ Running
    /\ Script(TimerReset([World EXCEPT !.s.first_trial = TRUE]))
    /\ hist' = [hist EXCEPT !.requested = <<>>, !.deadline = now]
    /\ UNCHANGED loop

\* Trial.__init__ with the argument list tpl and the trial number a caller
\* counts up.  When _check_params raises, no Trial object comes to exist.
Construct(tpl) ==
    /\ IF CheckParams(tpl) = "none"
       THEN /\ trial' = [NoTrial EXCEPT !.trial_nr = hist.trials + 1,
                                        !.phase_durations = tpl.durs,
                                        !.non_int = tpl.non_int,
                                        !.parameters = tpl.parameters,
                                        !.phase_names = IF tpl.named THEN PhaseNames
                                                        ELSE NoNames,
                                        !.timing = tpl.timing,
                                        !.draw_each_frame = tpl.draw_each_frame]
            /\ hist' = [hist EXCEPT !.requested = tpl.durs, !.trials = @ + 1]
            /\ pc' = "ready"
            /\ exc' = exc
       ELSE /\ pc' = "raised"
            /\ exc' = CheckParams(tpl)
            /\ UNCHANGED <<trial, hist>>
    /\ UNCHANGED <<now, session, loop, toCall, files>>

TrialInit(templates) ==
    /\ Running
    /\ hist.trials < MaxTrials
    /\ \E tpl \in templates : Construct(tpl)

\* Trial.run up to its for loop: the first-trial compensation.
RunStart ==
    /\ pc = "ready"
    /\ IF session.first_trial
       THEN /\ trial' = [trial EXCEPT !.phase_durations = Compensate(@, trial.timing)]
            /\ session' = [session EXCEPT !.first_trial = FALSE]
       ELSE UNCHANGED <<trial, session>>
    /\ pc' = "arm"
    /\ loop' = [it |-> 1, fr |-> 0]
    /\ UNCHANGED <<exc, now, toCall, files, hist>>

\* The head of an iteration of the for loop: the onset callback is registered
\* and, under seconds timing, the countdown is armed.
Arm ==
    /\ pc = "arm"
    /\ toCall' = Append(toCall, [trial_nr |-> trial.trial_nr, phase |-> trial.phase,
                                 phase_names |-> trial.phase_names,
                                 parameters |-> trial.parameters])
    /\ session' = IF trial.timing = "seconds"
                  THEN TimerAdd(World, PhaseDur).s
                  ELSE session
    /\ loop' = [loop EXCEPT !.fr = 0]
    /\ pc' = "frames"
    /\ hist' = [hist EXCEPT !.timerAtArm = IF trial.timing = "seconds"
                                           THEN TimerTime(World) ELSE 0,
                            !.deadline = IF trial.timing = "seconds"
                                         THEN @ + PhaseDur ELSE @]
    /\ UNCHANGED <<exc, now, trial, files>>

\* The mouse_click rows of a log.
Clicks(log) == Cardinality({i \in DOMAIN log : log[i].event_type = "mouse_click"})

\* The press the mouse is in after a frame that read m and logged c clicks:
\* the consecutive polled frames with the button down (counted up to 2), the
\* clicks logged in them, and whether the cursor was inside a digit region in
\* each of them.
PressAfter(p, m, c) ==
    IF m.pressed = 0 THEN NoPress
    ELSE IF p.frames = 0
         THEN [frames |-> 1, clicks |-> c, inside |-> m.over \ {0} # {}]
         ELSE [frames |-> 2, clicks |-> p.clicks + c,
               inside |-> p.inside /\ m.over \ {0} # {}]

\* One iteration of the phase loop with the given drawing and inputs.
\* The press after an iteration that ended in w, c clicks having been logged;
\* the mouse was polled unless the iteration ended before.
PressSeen(w, m, c) ==
    IF session.virtual_response_box /\ (Ok(w) \/ c > 0)
    THEN PressAfter(hist.press, m, c)
    ELSE hist.press

FrameCommit(w, m) ==
    /\ Commit(w, "frames")
    /\ hist' = [hist EXCEPT !.press =
                   PressSeen(w, m, Clicks(w.s.global_log) - Clicks(session.global_log))]

\* An iteration takes a frame interval at least: it fits into the run of the
\* model only when one is left.
FrameLeft == now + FrameTicks <= MaxFrames * FrameTicks

FrameWith(sig, drawFlips, events, m) ==
    /\ pc = "frames"
    /\ LoopCond(World)
    /\ FrameLeft
    /\ \E w \in {FrameBody(World, sig, drawFlips, events, m)} : FrameCommit(w, m)
    /\ loop' = [loop EXCEPT !.fr = @ + 1]

Frame(sigs, flips, shapes, mice) ==
    \E sig \in sigs, drawFlips \in flips, shape \in shapes, m \in mice :
        /\ drawFlips => (trial.timing = "seconds" /\ ~trial.draw_each_frame)
        /\ m # NoMouse => session.virtual_response_box
        /\ FrameWith(sig, drawFlips,
                     Stamp(shape, ClockTime(World), ClockTime(World) + FrameTicks), m)

\* The end of an iteration of the for loop, once the phase loop has ended.
PhaseEnd ==
    /\ pc = "frames"
    /\ ~LoopCond(World)
    /\ LET w1 == IF trial.exit_phase
                 THEN [TimerReset(World) EXCEPT !.t.exit_phase = FALSE]
                 ELSE World
       IN  IF w1.t.exit_trial
           THEN /\ Commit(TimerReset(w1), "idle")
                /\ loop' = [it |-> 0, fr |-> 0]
           ELSE LET n == Len(trial.phase_durations)
                    w2 == IF w1.t.phase # n - 1
                          THEN [w1 EXCEPT !.t.phase = @ + 1] ELSE w1
                IN  IF loop.it < n
                    THEN /\ Commit(w2, "arm")
                         /\ loop' = [loop EXCEPT !.it = @ + 1]
                    ELSE /\ Commit(w2, "idle")
                         /\ loop' = [it |-> 0, fr |-> 0]
    /\ hist' = [hist EXCEPT !.timerAtArm = 0,
                            !.afterStop = trial.exit_phase /\ ~trial.exit_trial,
                            !.deadline = IF trial.exit_phase \/ trial.exit_trial
                                         THEN now ELSE @]

\* A call of Session.close() by the script.
CloseCall ==
    /\ pc = "idle"
    /\ Script(Close(World))
    /\ hist' = [hist EXCEPT !.requested = <<>>]
    /\ UNCHANGED loop

\* A call of Session.quit() by the script.
QuitCall ==
    /\ pc = "idle"
    /\ Script(Quit(World))
    /\ hist' = [hist EXCEPT !.requested = <<>>]
    /\ UNCHANGED loop

\* A direct call of Session.save_data() by the script.
SaveDataCall ==
    /\ pc = "idle"
    /\ files.writes < MaxSaves
    /\ Script(SaveData(World))
    /\ hist' = [hist EXCEPT !.requested = <<>>]
    /\ UNCHANGED loop

\* ------------------------------------------------------- specifications
\* The session and trial machine with a keyboard that is silent or gives
\* the quit key: every timing mode and draw policy, no stop signal.
AllTrials == Templates({"seconds", "frames"}, BOOLEAN, {TRUE})
NoSignal == {"none"}
Either == BOOLEAN
QuitOrNothing == NoKeys \cup QuitKeys
MouseIdle == {NoMouse}

Init == InitWith(BOOLEAN, {NoAttr, 0}, {FALSE})

Next ==
    \/ StartExperiment
    \/ StartBlock
    \/ TrialInit(AllTrials)
    \/ RunStart
    \/ Arm
    \/ Frame(NoSignal, Either, QuitOrNothing, MouseIdle)
    \/ PhaseEnd
    \/ CloseCall
    \/ QuitCall

Spec == Init /\ [][Next]_vars

\* The same machine with the virtual response pad: trials timed in seconds
\* whose draw() decides about flipping, a mouse and plain keys.
PadTrials == Templates({"seconds"}, {FALSE}, {TRUE})
PadKeys == NoKeys \cup EarlyKeys
PadMouse == {NoMouse} \cup Presses

InitPad == InitWith({FALSE}, {NoAttr, 0}, {TRUE})

NextPad ==
    \/ StartExperiment
    \/ TrialInit(PadTrials)
    \/ RunStart
    \/ Arm
    \/ Frame(NoSignal, Either, PadKeys, PadMouse)
    \/ PhaseEnd
    \/ CloseCall

SpecPad == InitPad /\ [][NextPad]_vars

\* The same machine as a source of event logs: trials that flip in every
\* frame and may end early on a signal of draw(), key presses, restarts of
\* the experiment clock and of the block.
FlippingTrials == Templates({"seconds", "frames"}, {TRUE}, {TRUE})
NeverInDraw == {FALSE}
PlainKeys == NoKeys \cup EarlyKeys \cup LateKeys

InitLog == InitWith({FALSE}, {NoAttr, 0}, {FALSE})

NextLog ==
    \/ StartExperiment
    \/ StartBlock
    \/ TrialInit(FlippingTrials)
    \/ RunStart
    \/ Arm
    \/ Frame(Signals, NeverInDraw, PlainKeys, MouseIdle)
    \/ PhaseEnd
    \/ CloseCall

SpecLog == InitLog /\ [][NextLog]_vars

\* The life cycle of a session whose script also calls save_data() itself:
\* trials that flip in every frame, a silent keyboard.
NextSave ==
    \/ StartExperiment
    \/ TrialInit(FlippingTrials)
    \/ RunStart
    \/ Arm
    \/ Frame(NoSignal, NeverInDraw, NoKeys, MouseIdle)
    \/ PhaseEnd
    \/ CloseCall
    \/ SaveDataCall

SpecSave == InitLog /\ [][NextSave]_vars

\* The same machine with every kind of argument list a caller may pass to
\* Trial.__init__: a timing mode that does not exist, durations given as
\* floats, no phase_names.
UnknownTiming == Templates({"ms"}, {TRUE}, {TRUE})
PlainTrials == Templates({"seconds", "frames"}, {TRUE}, BOOLEAN)
FloatTrials == Mistyped(FlippingTrials)
AnyArgs == PlainTrials \cup UnknownTiming \cup FloatTrials

NextArgs ==
    \/ StartExperiment
    \/ TrialInit(AnyArgs)
    \/ RunStart
    \/ Arm
    \/ Frame(NoSignal, NeverInDraw, NoKeys, MouseIdle)
    \/ PhaseEnd
    \/ CloseCall

SpecArgs == InitLog /\ [][NextArgs]_vars

\* The same machine as a source of responses: every timing mode and draw
\* policy, and keys pressed late in a frame.
RespKeys == NoKeys \cup LateKeys

NextResp ==
    \/ StartExperiment
    \/ TrialInit(AllTrials)
    \/ RunStart
    \/ Arm
    \/ Frame(NoSignal, Either, RespKeys, MouseIdle)
    \/ PhaseEnd
    \/ CloseCall

SpecResp == InitLog /\ [][NextResp]_vars

\* ------------------------------------------------------------ properties
\* The batches that hold the quit key, alone or next to another key.
WithQuit == QuitKeys \cup QuitBatches

\* The world in which get_events runs in the next iteration of the phase
\* loop, when draw() raises no signal.
AtPoll(drawFlips) == PreEvents(World, "none", drawFlips)

\* The iteration can happen: the loop is at its condition and draw() flips
\* only where the run loop leaves the flip to it.
Polls(drawFlips) ==
    /\ pc = "frames"
    /\ LoopCond(World)
    /\ drawFlips => (trial.timing = "seconds" /\ ~trial.draw_each_frame)
    /\ Ok(AtPoll(drawFlips))

\* C1: for any sequence of close() calls on a session that is not in test
\* mode, the data are persisted exactly once, by the first call; a later
\* close() persists nothing, does not flip and does not raise.
C1_CloseIdempotent ==
    [][(CloseCall /\ ~session.test) =>
          /\ pc' = "idle"
          /\ files'.writes = 1
          /\ session.closed => (now' = now /\ files' = files)]_vars

\* C5: the first run() after construction or after start_block() shortens
\* phase 0 by one frame (frames timing) or by 1.1 frame intervals (seconds
\* timing) and clears first_trial; every other phase, and every phase of the
\* trials run until the next start_block(), keeps its requested duration.
C5_FirstTrialCompensation ==
    [][/\ RunStart =>
            /\ ~session'.first_trial
            /\ DOMAIN trial'.phase_durations = DOMAIN hist.requested
            /\ \A i \in DOMAIN hist.requested :
                  IF session.first_trial /\ i = 1
                  THEN IF trial.timing = "frames"
                       THEN trial'.phase_durations[i] = hist.requested[i] - 1
                       ELSE 10 * (hist.requested[i] - trial'.phase_durations[i])
                                = 11 * FrameTicks
                  ELSE trial'.phase_durations[i] = hist.requested[i]
       /\ pc \in {"arm", "frames"} =>
            /\ trial'.phase_durations = trial.phase_durations
            /\ session'.first_trial = session.first_trial
       /\ (session'.first_trial /\ ~session.first_trial) => StartBlock]_vars

\* C5 witness: a second trial runs with its requested durations, the first
\* one having taken the compensation.
C5_SecondTrialUncompensated ==
    /\ pc = "frames"
    /\ hist.trials = 2
    /\ ~session.first_trial
    /\ trial.phase_durations = hist.requested

\* C6: when the batch polled in a frame holds the quit key, that get_events
\* call closes the session (the log persisted exactly once unless in test
\* mode) and terminates the process.
C6_QuitPath ==
    \A shape \in WithQuit, drawFlips \in BOOLEAN :
        (Polls(drawFlips) /\ session.exp_start # NoneT) =>
            LET w1 == AtPoll(drawFlips)
                w == GetEvents(w1, Stamp(shape, ClockTime(World), ClockTime(w1)),
                               NoMouse)
            IN  /\ w.exc = "none"
                /\ w.exited
                /\ w.s.closed
                /\ ~w.s.test => w.files.writes = 1

\* C10: when the log holds no non-response row, close() and its save_data
\* complete without raising and assign no duration.
C10_NoNonResponseRow ==
    [][(/\ CloseCall
        /\ ~session.closed /\ ~session.test
        /\ toCall = <<>>
        /\ NonRespIdx(session.global_log) = {}) =>
          /\ pc' = "idle"
          /\ session'.closed
          /\ \A i \in DOMAIN files'.events : files'.events[i].duration = NoneT]_vars

\* The rows of a log that record a key.
IsKeyRow(r) == r.event_type \in {"key_press", "pulse"}

\* C2: a key that is in the batch polled in a frame and was in the batch
\* polled in the frame before (the session's last-frame batch) gets no
\* key_press or pulse row in that frame.
C2_KeyDeduplication ==
    [][\A i \in DOMAIN session'.global_log :
          (i > Len(session.global_log) /\ IsKeyRow(session'.global_log[i])) =>
              \A j \in DOMAIN session.keys_pressed_last_frame :
                  session.keys_pressed_last_frame[j].key
                      # session'.global_log[i].response]_vars

\* C3: a press held over consecutive polled frames with the cursor inside a
\* digit region logs one mouse_click row, in the first of these frames, and
\* no other; a mouse_click row is only logged when the frame polled before
\* saw the button released.
C3_EdgeDetection ==
    [][/\ (hist'.press.frames >= 1 /\ hist'.press.inside) =>
              hist'.press.clicks = 1
       /\ Clicks(session'.global_log) > Clicks(session.global_log) =>
              /\ ~Truthy(session.mouse_was_pressed)
              /\ Clicks(session'.global_log) = Clicks(session.global_log) + 1]_vars

\* C3 witness: a press held inside a digit region for a second frame, after
\* the one click of its first frame.
C3_HeldPressOneClick ==
    /\ pc = "frames"
    /\ hist.press = [frames |-> 2, clicks |-> 1, inside |-> TRUE]

\* C4: a fresh press inside several digit regions logs exactly one
\* mouse_click row, with the code of the lowest-index digit region that
\* contains it (never region 0), and sets last_resp to that code.
C4_TieBreak ==
    \A m \in Presses, drawFlips \in BOOLEAN :
        (/\ Polls(drawFlips)
         /\ session.virtual_response_box
         /\ FreshPress(AtPoll(drawFlips), m)
         /\ m.over \ {0} # {}) =>
            LET w1 == AtPoll(drawFlips)
                w == GetEvents(w1, <<>>, m)
                lowest == CHOOSE i \in m.over \ {0} :
                              \A k \in m.over \ {0} : i <= k
            IN  /\ Clicks(w.s.global_log) = Clicks(w1.s.global_log) + 1
                /\ Last(w.s.global_log).event_type = "mouse_click"
                /\ Last(w.s.global_log).response = Digits[lowest]
                /\ w.t.last_resp = Digits[lowest]

\* The persisted table, once written.
Persisted == files.writes > 0

\* C7: in the persisted table every non-response row has the duration from
\* its onset to the onset of the next non-response row, the last one the
\* duration from its onset to exp_stop; every row has onset_abs = onset +
\* exp_start; a response row has no duration.
C7_FinalizeDurations ==
    Persisted =>
        LET ev == files.events
            log == session.global_log
            nr == NonRespIdx(ev)
        IN  /\ Len(ev) = Len(log)
            /\ \A i \in DOMAIN ev :
                  /\ ev[i].onset = log[i].onset
                  /\ ev[i].event_type = log[i].event_type
                  /\ ev[i].onset_abs = ev[i].onset + session.exp_start
                  /\ IF i \notin nr THEN ev[i].duration = NoneT
                     ELSE LET later == {j \in nr : j > i}
                          IN  IF later = {}
                              THEN ev[i].duration = files.exp_stop - ev[i].onset
                              ELSE \E j \in later :
                                      /\ \A k \in later : j <= k
                                      /\ ev[i].duration = ev[j].onset - ev[i].onset

\* C7 witness: a persisted table with a response row between two
\* non-response rows.
C7_ResponseBetweenPhases ==
    /\ Persisted
    /\ \E i, j, k \in DOMAIN files.events :
          /\ i < j /\ j < k
          /\ ~IsResponse(files.events[i])
          /\ IsResponse(files.events[j])
          /\ ~IsResponse(files.events[k])

\* Durations are not negative and onset_abs does not decrease over the
\* non-response rows of the persisted table.
OrderedTable ==
    LET ev == files.events
        nr == NonRespIdx(ev)
    IN  /\ \A i \in nr : ev[i].duration >= 0
        /\ \A i, j \in nr : i < j => ev[i].onset_abs <= ev[j].onset_abs

\* C8 as stated: after any sequence of start_experiment, start_block and
\* trial runs followed by close(), the persisted table is ordered.
C8_OrderedAfterAnySequence == Persisted => OrderedTable

\* C8: the persisted table is ordered when the experiment clock was last
\* reset by start_experiment() while the log was empty; this includes a
\* phase onset logged by the closing flip of close().
C8_OrderedAfterOneStart == (Persisted /\ hist.rowsAtReset = 0) => OrderedTable

\* C8 witness: a persisted table whose last phase onset was logged by the
\* closing flip, after an earlier phase of positive duration.
C8_OnsetAtClosingFlip ==
    /\ Persisted
    /\ hist.rowsAtReset = 0
    /\ \E i, j \in NonRespIdx(files.events) :
          /\ i < j
          /\ files.events[i].duration > 0
          /\ files.events[j].onset = files.exp_stop

\* C9 as stated: the onsets of the log never decrease in append order.
C9_OnsetsNonDecreasing ==
    \A i, j \in DOMAIN session.global_log :
        i < j => session.global_log[i].onset <= session.global_log[j].onset

\* C9: while the experiment clock has not been reset after a row was logged,
\* a phase onset or a mouse click is never stamped earlier than a row
\* appended before it; only a key row may be.
C9_NonKeyOnsetsNonDecreasing ==
    hist.rowsAtReset = 0 =>
        \A i, j \in DOMAIN session.global_log :
            (i < j /\ ~IsKeyRow(session.global_log[j])) =>
                session.global_log[i].onset <= session.global_log[j].onset

\* C9 witness: a key row stamped earlier than the phase onset before it,
\* followed by a mouse click.
C9_EarlyKeyThenClick ==
    /\ hist.rowsAtReset = 0
    /\ pc # "raised"
    /\ \E i, j, k \in DOMAIN session.global_log :
          /\ i < j /\ j < k
          /\ IsKeyRow(session.global_log[j])
          /\ session.global_log[j].onset < session.global_log[i].onset
          /\ session.global_log[k].event_type = "mouse_click"

\* C11: once the closed flag is set, a direct call of save_data() writes no
\* file, leaves exp_stop as it is and returns, so that the log is persisted
\* once over any sequence of close() and save_data() calls.
C11_SaveAfterCloseNoOp ==
    [][(SaveDataCall /\ session.closed) =>
          /\ pc' = "idle"
          /\ files' = files
          /\ session'.exp_stop = session.exp_stop]_vars

\* The label the docstring of Trial.__init__ gives for a phase without a name.
GenericLabel == "stim"

\* The states in which a Trial object is in run().
InRun == pc \in {"ready", "arm", "frames"}

\* C12: a Trial constructed without phase_names has a label for every phase,
\* and each of its onset callbacks appends its row with the generic label as
\* event_type and raises nothing.
C12_DefaultPhaseNames ==
    /\ InRun => Len(trial.phase_names) = Len(trial.phase_durations)
    /\ \A i \in DOMAIN toCall :
          toCall[i].phase_names = NoNames =>
              LET w == LogPhaseInfo(World, toCall[i])
              IN  /\ w.exc = "none"
                  /\ Last(w.s.global_log).event_type = GenericLabel

\* The argument lists _check_params is to reject.
Rejected(tpl) ==
    \/ tpl.timing \notin {"seconds", "frames"}
    \/ tpl.timing = "frames" /\ tpl.non_int # {}

\* C13: Trial.__init__ with a timing mode other than seconds or frames, or
\* with frames timing and a duration that is not an int, raises at
\* construction and leaves the log, the clocks, the first-trial mark and the
\* pending callbacks as they are; a trial in run() has a valid timing mode
\* and, under frames timing, int durations only.
C13_FailFastConstruction ==
    [][/\ \A tpl \in AnyArgs :
             (Construct(tpl) /\ Rejected(tpl)) =>
                 /\ pc' = "raised"
                 /\ exc' = "ValueError"
                 /\ UNCHANGED <<session, now, toCall, files, trial>>
       /\ pc' \in {"ready", "arm", "frames"} =>
             /\ trial'.timing \in {"seconds", "frames"}
             /\ trial'.timing = "frames" => trial'.non_int = {}]_vars

\* C13 witness: a construction was rejected after a trial had run and logged.
C13_RejectedAfterARun ==
    /\ pc = "raised"
    /\ exc = "ValueError"
    /\ session.global_log # <<>>
    /\ ~session.first_trial

\* The iterations a phase loop makes to count down d ticks, one frame
\* interval passing in each.
FramesFor(d) ==
    CHOOSE k \in 0..(MaxFrames + 1) :
        /\ k * FrameTicks >= d
        /\ \A j \in 0..(MaxFrames + 1) : j * FrameTicks >= d => k <= j

\* The step in which the phase loop is left and the for loop goes on.
PhaseEnds == pc = "frames" /\ pc' \in {"arm", "idle"}

\* A phase timed in seconds that no exit signal has ended.
Unsignalled ==
    trial.timing = "seconds" /\ ~trial.exit_phase /\ ~trial.exit_trial

\* The phase has the duration the caller requested.
Uncompensated == PhaseDur = hist.requested[loop.it]

\* C14 as stated: under seconds timing with no exit signal, every phase
\* other than the compensated one runs its loop for its nominal duration
\* counted from the moment it is armed.
C14_NominalFromArming ==
    [][(PhaseEnds /\ Unsignalled /\ Uncompensated) =>
          loop.fr = FramesFor(PhaseDur)]_vars

\* C14: under seconds timing with no exit signal, a phase runs its loop
\* until its duration has counted down from what the countdown timer read
\* when the phase was armed: its nominal duration less the time by which
\* the timer was past zero then.
C14_NominalFromDeadline ==
    [][(PhaseEnds /\ Unsignalled) =>
          loop.fr = FramesFor(PhaseDur - hist.timerAtArm)]_vars

\* C14 witness: a phase with its requested duration that ended after fewer
\* frames than the duration takes, the timer having been past zero when it
\* was armed.
C14_ShortenedByOverrun ==
    /\ pc = "frames"
    /\ Unsignalled /\ Uncompensated
    /\ ~LoopCond(World)
    /\ hist.timerAtArm > 0
    /\ loop.fr < FramesFor(PhaseDur)

\* The phases of the onset rows of trial t in a log, in log order.
RECURSIVE OnsetPhases(_, _)
OnsetPhases(log, t) ==
    IF log = <<>> THEN <<>>
    ELSE IF Head(log).trial_nr = t /\ ~IsResponse(Head(log))
         THEN <<Head(log).phase>> \o OnsetPhases(Tail(log), t)
         ELSE OnsetPhases(Tail(log), t)

\* The phases of the pending callbacks of trial t, in registration order.
RECURSIVE PendingPhases(_, _)
PendingPhases(q, t) ==
    IF q = <<>> THEN <<>>
    ELSE IF Head(q).trial_nr = t
         THEN <<Head(q).phase>> \o PendingPhases(Tail(q), t)
         ELSE PendingPhases(Tail(q), t)

\* The phases 0, 1, ..., n - 1 in this order.
PhasesUpTo(n) == [i \in 1..n |-> i - 1]

\* C15: a run() that is not aborted registers one onset callback per phase,
\* in the order 0, 1, ..., n-1 and bound to the phase index of that moment;
\* a flip turns the pending callbacks into onset rows with these phases, in
\* this order, so that the trial has n onset rows with phases 0..n-1 once
\* its callbacks have run; the phase index never decreases and never
\* exceeds n-1.
C15_OneOnsetPerPhase ==
    [][/\ (pc = "arm" /\ pc' = "frames") =>
             /\ trial.phase = loop.it - 1
             /\ Len(toCall') = Len(toCall) + 1
             /\ Last(toCall').phase = trial.phase
             /\ Last(toCall').trial_nr = trial.trial_nr
       /\ Len(toCall') > Len(toCall) => pc = "arm"
       /\ (toCall # <<>> /\ toCall' = <<>>) =>
             \A i \in DOMAIN toCall :
                 LET row == session'.global_log[Len(session.global_log) + i]
                 IN  /\ ~IsResponse(row)
                     /\ row.trial_nr = toCall[i].trial_nr
                     /\ row.phase = toCall[i].phase
       /\ (pc = "frames" /\ pc' = "idle" /\ ~trial.exit_trial) =>
             OnsetPhases(session'.global_log, trial.trial_nr)
                     \o PendingPhases(toCall', trial.trial_nr)
                 = PhasesUpTo(Len(trial.phase_durations))
       /\ InRun =>
             /\ trial'.phase >= trial.phase
             /\ trial'.phase <= Len(trial.phase_durations) - 1]_vars

\* C15 witness: a run of a trial with two phases has returned, its callbacks
\* have run, and the log holds its onset rows of phases 0 and 1.
C15_TwoPhasesLogged ==
    /\ pc = "idle"
    /\ Len(trial.phase_durations) = 2
    /\ ~trial.exit_trial
    /\ toCall = <<>>
    /\ OnsetPhases(session.global_log, trial.trial_nr) = <<0, 1>>

\* The iterations a phase of duration d makes when no signal ends it and
\* the countdown starts at its arming.
Nominal(d) == IF trial.timing = "seconds" THEN FramesFor(d) ELSE d

\* C16: a stop_phase() raised during phase k ends phase k only: the loop is
\* left before the next draw, the timer is reset and the flag cleared before
\* phase k+1 is armed, the trial goes on, and phase k+1 is armed and runs
\* its nominal duration counted from the exit.
C16_StopPhaseEndsOnePhase ==
    [][/\ (pc = "frames" /\ trial.exit_phase) =>
             /\ pc' \in {"arm", "idle"}
             /\ UNCHANGED <<now, toCall, files>>
             /\ session'.global_log = session.global_log
             /\ ~trial'.exit_phase
             /\ session'.timerRef = now
       /\ (pc = "frames" /\ trial.exit_phase /\ ~trial.exit_trial
              /\ loop.it < Len(trial.phase_durations)) =>
             /\ pc' = "arm"
             /\ loop'.it = loop.it + 1
             /\ trial'.phase = trial.phase + 1
       /\ (pc = "arm" /\ hist.afterStop) =>
             /\ pc' = "frames"
             /\ Last(toCall').phase = trial.phase
       /\ (PhaseEnds /\ hist.afterStop
              /\ ~trial.exit_phase /\ ~trial.exit_trial) =>
             loop.fr = Nominal(PhaseDur)]_vars

\* C16 witness: the phase after one that stop_phase() ended has run its two
\* frames and is at its end.
C16_NextPhaseRanInFull ==
    /\ pc = "frames"
    /\ hist.afterStop
    /\ ~trial.exit_phase /\ ~trial.exit_trial
    /\ ~LoopCond(World)
    /\ loop.fr = 2

\* C17: after stop_trial() was raised during phase k, run() returns without
\* entering a later phase: the next step leaves the loops with no draw, flip,
\* event collection or callback registration, the phase index stays k and
\* the countdown timer is reset.
C17_StopTrialEndsRun ==
    [][/\ (pc = "frames" /\ trial.exit_trial) =>
             /\ pc' = "idle"
             /\ UNCHANGED <<now, toCall, files>>
             /\ session'.global_log = session.global_log
             /\ session'.keys_pressed_last_frame = session.keys_pressed_last_frame
             /\ trial'.phase = trial.phase
             /\ trial.phase = loop.it - 1
             /\ session'.timerRef = now
       /\ pc' \in {"ready", "arm"} => ~trial'.exit_trial]_vars

\* C17 witness: run() has returned from phase 0 of a trial with two phases
\* on stop_trial(), and only the callback of phase 0 was ever registered.
C17_AbortedInPhaseZero ==
    /\ pc = "idle"
    /\ trial.exit_trial
    /\ Len(trial.phase_durations) = 2
    /\ trial.phase = 0
    /\ OnsetPhases(session.global_log, trial.trial_nr)
            \o PendingPhases(toCall, trial.trial_nr) = <<0>>

\* C18: whenever run() returns, exit_phase and exit_trial are both false
\* again, whichever signal was raised during the run.
C18_SignalsConsumed ==
    [][(InRun /\ pc' = "idle") =>
          (~trial'.exit_phase /\ ~trial'.exit_trial)]_vars

\* C19: under frames timing a phase of effective duration d that no signal
\* ends makes d iterations, each with one flip and, after it, one increment
\* of the frame counter; a signal raised in iteration j leaves the loop
\* after iteration j, with no further draw or flip.
C19_FrameCountedPhase ==
    [][trial.timing = "frames" =>
          /\ (pc = "frames" /\ pc' = "frames") =>
                /\ loop'.fr = loop.fr + 1
                /\ loop'.fr <= PhaseDur
                /\ ~trial.exit_phase /\ ~trial.exit_trial
                /\ now' = now + FrameTicks
                /\ session'.nr_frames
                       = (IF toCall # <<>> THEN 0 ELSE session.nr_frames) + 1
          /\ (PhaseEnds /\ ~trial.exit_phase /\ ~trial.exit_trial) =>
                loop.fr = (IF PhaseDur > 0 THEN PhaseDur ELSE 0)
          /\ (pc = "frames" /\ (trial.exit_phase \/ trial.exit_trial)) =>
                /\ pc' \in {"arm", "idle"}
                /\ UNCHANGED <<now, toCall>>
                /\ session'.nr_frames = session.nr_frames]_vars

\* C19 witness: a phase of two frames is at the end of its second iteration,
\* no signal raised.
C19_TwoFramesDone ==
    /\ pc = "frames"
    /\ trial.timing = "frames"
    /\ ~trial.exit_phase /\ ~trial.exit_trial
    /\ PhaseDur = 2
    /\ loop.fr = 2

\* The log holds an onset row of trial t and phase k before position j.
OnsetBefore(log, j) ==
    \E i \in 1..(j - 1) :
        /\ ~IsResponse(log[i])
        /\ log[i].trial_nr = log[j].trial_nr
        /\ log[i].phase = log[j].phase

\* C20 as stated: every response row of the log of a running script has the
\* onset row of its trial and phase before it, whatever the timing mode and
\* the draw policy.
C20_OnsetBeforeResponse ==
    pc # "raised" =>
        \A j \in DOMAIN session.global_log :
            IsResponse(session.global_log[j]) => OnsetBefore(session.global_log, j)

\* The trial flips in every iteration of its phase loops, before get_events.
FlipsEachFrame == trial.timing = "frames" \/ trial.draw_each_frame

\* C20: a response row that a trial logs under frames timing, or under
\* seconds timing with draw_each_frame, has the onset row of its trial and
\* phase before it in the log.
C20_OnsetBeforeResponseWhenFlipping ==
    [][FlipsEachFrame =>
          \A j \in DOMAIN session'.global_log :
              (j > Len(session.global_log) /\ IsResponse(session'.global_log[j])) =>
                  OnsetBefore(session'.global_log, j)]_vars

\* C20 witness: a trial that flips in every frame has logged a response in
\* its phase 1, after the onset rows of phases 0 and 1.
C20_ResponseInSecondPhase ==
    /\ pc = "frames"
    /\ FlipsEachFrame
    /\ trial.phase = 1
    /\ session.global_log # <<>>
    /\ IsResponse(Last(session.global_log))
    /\ Last(session.global_log).phase = 1
    /\ Last(session.global_log).trial_nr = trial.trial_nr

\* C21: every response row carries as rt its onset minus the onset of the
\* phase-0 onset row of its trial, which the log holds by then; a row that is
\* not a response carries no rt.
C21_RtFromTrialStart ==
    \A j \in DOMAIN session.global_log :
        LET log == session.global_log
        IN  IF IsResponse(log[j])
            THEN \E i \in 1..(j - 1) :
                     /\ ~IsResponse(log[i])
                     /\ log[i].trial_nr = log[j].trial_nr
                     /\ log[i].phase = 0
                     /\ log[j].rt = log[j].onset - log[i].onset
            ELSE log[j].rt = NoneT

\* The same machine with a scanner: a session whose script has set
\* mri_trigger to the key the scanner sends, or left it None, and batches of
\* one key that is the trigger key or a response key.
TriggerKey == "t"
ScannerKeys == NoKeys \cup LateKeys \cup {<<Key(TriggerKey, FALSE)>>}

InitKeys == InitOf({FALSE}, {NoAttr, 0}, {FALSE}, {NoKey, TriggerKey})

NextKeys ==
    \/ TrialInit(AllTrials)
    \/ RunStart
    \/ Arm
    \/ Frame(NoSignal, Either, ScannerKeys, MouseIdle)
    \/ PhaseEnd

SpecKeys == InitKeys /\ [][NextKeys]_vars

\* C22: a key that get_events logs is logged as a pulse, last_resp and
\* last_resp_onset staying as they are, when it is the trigger key of the
\* session, and as a key_press that becomes last_resp, its time stamp
\* last_resp_onset, when it is any other key; a session without a trigger key
\* logs no pulse.
C22_TriggerClassification ==
    [][\A j \in DOMAIN session'.global_log :
          (j > Len(session.global_log) /\ IsKeyRow(session'.global_log[j])) =>
              LET row == session'.global_log[j]
              IN  /\ session.mri_trigger = NoKey => row.event_type # "pulse"
                  /\ IF row.response = session.mri_trigger
                     THEN /\ row.event_type = "pulse"
                          /\ trial'.last_resp = trial.last_resp
                          /\ trial'.last_resp_onset = trial.last_resp_onset
                     ELSE /\ row.event_type = "key_press"
                          /\ trial'.last_resp = row.response
                          /\ trial'.last_resp_onset = row.onset]_vars

\* The keys of a batch before its first quit key.
RECURSIVE BeforeQuit(_)
BeforeQuit(events) ==
    IF events = <<>> \/ Head(events).key = QuitKey THEN <<>>
    ELSE <<Head(events)>> \o BeforeQuit(Tail(events))

\* The rows from position n + 1 on.
RowsAfter(log, n) == [i \in 1..(Len(log) - n) |-> log[n + i]]

\* The rows of a log that a key or a click made, in log order.
RECURSIVE ResponseRows(_)
ResponseRows(log) ==
    IF log = <<>> THEN <<>>
    ELSE IF IsResponse(Head(log)) THEN <<Head(log)>> \o ResponseRows(Tail(log))
         ELSE ResponseRows(Tail(log))

\* C23: when the batch polled in a frame holds the quit key, get_events logs
\* the keys before it and shuts the session down with them in the persisted
\* log; the quit key and the keys after it get no row and do not become
\* last_resp, and the mouse is not polled in that frame.
C23_QuitCutsBatch ==
    \A shape \in QuitBatches, drawFlips \in BOOLEAN, m \in PadMouse :
        (Polls(drawFlips) /\ session.exp_start # NoneT) =>
            LET w1 == AtPoll(drawFlips)
                events == Stamp(shape, ClockTime(World), ClockTime(w1))
                before == BeforeQuit(events)
                w == GetEvents(w1, events, m)
                new == ResponseRows(RowsAfter(w.s.global_log, Len(w1.s.global_log)))
                saved == ResponseRows(RowsAfter(w.files.events, Len(w1.s.global_log)))
            IN  /\ w.exc = "none" /\ w.exited
                /\ Len(new) = Len(before)
                /\ \A i \in DOMAIN new :
                       /\ new[i].event_type = "key_press"
                       /\ new[i].response = before[i].key
                       /\ new[i].onset = before[i].t
                /\ Len(saved) = Len(before)
                /\ \A i \in DOMAIN saved : saved[i].response = before[i].key
                /\ w.t.last_resp = IF before = <<>> THEN w1.t.last_resp
                                   ELSE Last(before).key
                /\ w.s.mouse_was_pressed = w1.s.mouse_was_pressed

\* A script that constructs one trial and runs it, under every timing mode and
\* draw policy, with every signal of draw() and a keyboard that is silent or
\* gives the quit key.  The interpreter keeps executing a run() it is in: a
\* step of run() that can be taken is taken.
FirstTrial(templates) == hist.trials = 0 /\ TrialInit(templates)

RunStep ==
    \/ RunStart
    \/ Arm
    \/ Frame(Signals, Either, QuitOrNothing, MouseIdle)
    \/ PhaseEnd

NextLive ==
    \/ FirstTrial(AllTrials)
    \/ RunStart
    \/ Arm
    \/ Frame(Signals, Either, QuitOrNothing, MouseIdle)
    \/ PhaseEnd

SpecLive == InitLog /\ [][NextLive]_vars /\ WF_vars(RunStep)

\* sum(max(d, 0) for d in durs): the iterations of range(d) over the phases.
RECURSIVE FramesOfRun(_)
FramesOfRun(durs) ==
    IF durs = <<>> THEN 0
    ELSE (IF Head(durs) > 0 THEN Head(durs) ELSE 0) + FramesOfRun(Tail(durs))

\* C24: a run() that has started comes to an end, whatever draw() signals
\* and the keyboard gives; under frames timing no more frame intervals pass
\* in it than the phase durations it runs with add up to.
C24_RunTerminates ==
    /\ (pc = "ready") ~> (pc \in {"idle", "raised", "exited"})
    /\ [](InRun /\ pc # "ready" /\ trial.timing = "frames" =>
             now <= FrameTicks * FramesOfRun(trial.phase_durations))

\* C24 witness: a run() has returned after three frame intervals.
C24_ReturnedAfterThreeFrames ==
    /\ pc = "idle"
    /\ trial.trial_nr = 1
    /\ now = 3 * FrameTicks

\* The same machine with trials that carry parameters: a scalar, a list, or
\* both, on trials that flip in every frame, with keys pressed late in a frame.
ScalarParameter == [name |-> "cond", list |-> FALSE, val |-> <<1>>]
ListParameter == [name |-> "ori", list |-> TRUE, val |-> <<5, 7>>]

WithParameters(templates) ==
    {[tpl EXCEPT !.parameters = d] :
        tpl \in templates, d \in SUBSET {ScalarParameter, ListParameter}}

ParameterTrials == WithParameters(FlippingTrials)

NextParams ==
    \/ TrialInit(ParameterTrials)
    \/ RunStart
    \/ Arm
    \/ Frame(NoSignal, NeverInDraw, RespKeys, MouseIdle)
    \/ PhaseEnd

SpecParams == InitLog /\ [][NextParams]_vars

\* The cells under which a row should carry the parameter p: a scalar under
\* its name, the elements of a list under indexed columns, ZeroPadded or
\* SpacePadded according to the row.
Carries(row, p) ==
    IF p.list
    THEN \E pad \in {"0", " "} :
            \A i \in DOMAIN p.val :
                \E c \in row.params :
                    /\ c.col = p.name \o "_" \o PadLeft(IntStr(i - 1), 4, pad)
                    /\ c.text = IntStr(p.val[i])
    ELSE \E c \in row.params : c.col = p.name /\ c.text = IntStr(p.val[1])

\* C25: in a script that no exception has ended, the rows of the trial in
\* run() all carry each of its parameters, and any two of them carry the same
\* cells: the same column names with the same values.
C25_SameParameterColumns ==
    (InRun /\ pc # "ready") =>
        LET log == session.global_log
            own == {i \in DOMAIN log : log[i].trial_nr = trial.trial_nr}
        IN  /\ \A i \in own : \A p \in trial.parameters : Carries(log[i], p)
            /\ \A i, j \in own : log[i].params = log[j].params

\* ------------------------------------------------ Trial.load_next_trial
\* Session.actual_framerate when getActualFrameRate() gives None: frames per
\* second.
ActualFramerate == 60

\* load_dur > phase_dur.  A second has FrameTicks * ActualFramerate ticks;
\* load_dur is the time create_trial took, in seconds, divided by
\* actual_framerate under frames timing; phase_dur is in seconds or in frames.
Overshoot(timing, cost, phase_dur) ==
    IF timing = "frames"
    THEN cost > phase_dur * (FrameTicks * ActualFramerate) * ActualFramerate
    ELSE cost > phase_dur

\* The ticks session.create_trial may take, and the phase_dur a caller passes.
LoadCosts == {0, FrameTicks \div 2, (3 * FrameTicks) \div 2}
LoadDurs(timing) == IF timing = "seconds" THEN {FrameTicks, 2 * FrameTicks} ELSE {1, 2}

\* self.session.create_trial(self.trial_nr + 1): the child class's method,
\* which takes cost ticks.
CreateTrial(w, cost) == IF ~Ok(w) THEN w ELSE [w EXCEPT !.now = @ + cost]

\* Trial.load_next_trial(phase_dur), called by the child class between two
\* iterations of a phase loop.
LoadNextTrial(sigs, flips, costs) ==
    /\ pc = "frames"
    /\ FrameLeft
    /\ \E sig \in sigs, drawFlips \in flips, cost \in costs,
          phase_dur \in LoadDurs(trial.timing) :
          /\ drawFlips => (trial.timing = "seconds" /\ ~trial.draw_each_frame)
          /\ \E w \in {CreateTrial(Flip(Draw(World, sig, drawFlips)), cost)} :
                /\ Commit(w, "frames")
                /\ hist' = [hist EXCEPT !.load =
                               [calls |-> @.calls + 1,
                                nr |-> IF Ok(w) THEN trial.trial_nr + 1 ELSE NoneT,
                                cost |-> cost,
                                phase_dur |-> phase_dur,
                                warned |-> Ok(w) /\ Overshoot(trial.timing, cost, phase_dur)]]
    /\ UNCHANGED loop

\* A script of a child session, which assigns nr_frames and has a
\* create_trial, whose trials flip in every frame and load the next trial
\* during a phase.
InitLoad == InitWith({FALSE}, {0}, {FALSE})

NextLoad ==
    \/ TrialInit(FlippingTrials)
    \/ RunStart
    \/ Arm
    \/ Frame(NoSignal, NeverInDraw, NoKeys, MouseIdle)
    \/ LoadNextTrial(NoSignal, NeverInDraw, LoadCosts)
    \/ PhaseEnd

SpecLoad == InitLoad /\ [][NextLoad]_vars

\* The time create_trial took is more than phase_dur, both in the unit of the
\* trial's timing: ticks of a second, or frames of FrameTicks ticks.
LongerThanPhase(timing, cost, phase_dur) ==
    IF timing = "frames" THEN cost > phase_dur * FrameTicks ELSE cost > phase_dur

\* C26: a call of load_next_trial takes one flip and the time of
\* create_trial, which gets the next trial number; it warns exactly when that
\* time is longer than phase_dur in the unit of the trial's timing; it
\* returns, and the phase and the exit flags of the trial are as before.
C26_LoadNextTrial ==
    [][hist'.load.calls # hist.load.calls =>
          /\ pc' = "frames"
          /\ now' = now + FrameTicks + hist'.load.cost
          /\ hist'.load.nr = trial.trial_nr + 1
          /\ hist'.load.warned <=>
                 LongerThanPhase(trial.timing, hist'.load.cost, hist'.load.phase_dur)
          /\ trial'.phase = trial.phase
          /\ trial'.exit_phase = trial.exit_phase
          /\ trial'.exit_trial = trial.exit_trial]_vars

\* C27: the frame counter that the onset callback reads and the phase loop
\* counts up exists from the construction of the Session on: no flip and no
\* iteration fails on it, and every onset row is appended whole, with its
\* frame count.
C27_FrameCounterInitialised ==
    /\ exc # "AttributeError"
    /\ \A i \in DOMAIN session.global_log :
           LET row == session.global_log[i]
           IN  (~IsResponse(row) /\ row.phase # NoneT) => row.nr_frames # NoneT

\* The same machine as a source of countdowns: a session with nr_frames
\* assigned, every timing mode and draw policy, every signal of draw(),
\* restarts of the experiment and of the block, a silent keyboard.
NextTimer ==
    \/ StartExperiment
    \/ StartBlock
    \/ TrialInit(AllTrials)
    \/ RunStart
    \/ Arm
    \/ Frame(Signals, Either, NoKeys, MouseIdle)
    \/ PhaseEnd

SpecTimer == InitLoad /\ [][NextTimer]_vars

\* C28: hist.deadline is the instant of the last timer reset plus the
\* durations armed since.  Under seconds timing a phase that no signal ends
\* leaves its loop at the deadline or after it, at the first frame that
\* reaches it; a phase armed at or after the deadline makes no iteration.
C28_CountdownOnlyShifted ==
    [][/\ (PhaseEnds /\ Unsignalled) =>
              /\ now >= hist.deadline
              /\ loop.fr > 0 => now - FrameTicks < hist.deadline
       /\ (/\ pc = "arm" /\ pc' = "frames"
           /\ trial.timing = "seconds"
           /\ now >= hist'.deadline) => ~(LoopCond(World))']_vars

\* C28 witness: a phase of positive duration, armed after its deadline had
\* passed, is at the end of its loop with no frame made.
C28_NoFrameLeft ==
    /\ pc = "frames"
    /\ Unsignalled
    /\ PhaseDur > 0
    /\ loop.fr = 0
    /\ now >= hist.deadline
    /\ ~LoopCond(World)

=============================================================================
